---- MODULE Spec2Model ----
(***************************************************************************)
(* Model of HyUploader's interactive workflow (src/main.py):               *)
(* automate_process = select_sd_card -> list_files_on_sd_card ->           *)
(* select_files_to_download -> navigate_and_select_folder -> per-file      *)
(* download_file_from_sd_card / upload_file_to_drive.                      *)
(* Console input is a sequence of one-character strings; int(), strip(),   *)
(* split(','), lower() and str() are computed on those sequences.          *)
(***************************************************************************)
EXTENDS Integers, Sequences, FiniteSets, TLC

\* ------------------------------ bounds ---------------------------------
MaxMounts == 2    \* longest volume list the device returns
MaxFiles  == 2    \* longest file list the device returns
MaxCreate == 1    \* folders the user creates during one navigation

\* ------------------------- Python built-ins ----------------------------
\* Python None (and the empty string, equally falsy) is the empty sequence
None == <<>>

Digits == <<"0", "1", "2", "3", "4", "5", "6", "7", "8", "9">>

IsDigit(c) == \E d \in 1..10 : Digits[d] = c

DigitVal(c) == (CHOOSE d \in 1..10 : Digits[d] = c) - 1

IsSpace(c) == c \in {" ", "\t"}

RECURSIVE LStrip(_)
LStrip(s) == IF s # <<>> /\ IsSpace(Head(s)) THEN LStrip(Tail(s)) ELSE s

RECURSIVE RStrip(_)
RStrip(s) ==
    IF s # <<>> /\ IsSpace(s[Len(s)]) THEN RStrip(SubSeq(s, 1, Len(s) - 1)) ELSE s

\* str.strip()
Strip(s) == RStrip(LStrip(s))

RECURSIVE DigitsValue(_, _)
DigitsValue(s, acc) ==
    IF s = <<>> THEN acc ELSE DigitsValue(Tail(s), 10 * acc + DigitVal(Head(s)))

\* int(s): surrounding whitespace dropped, one optional sign, then one or
\* more decimal digits; anything else raises ValueError (ok = FALSE).
ParseInt(s) ==
    LET t    == Strip(s)
        sgn  == t # <<>> /\ Head(t) \in {"-", "+"}
        body == IF sgn THEN Tail(t) ELSE t
    IN  IF body # <<>> /\ \A k \in 1..Len(body) : IsDigit(body[k])
        THEN [ok |-> TRUE,
              val |-> IF sgn /\ Head(t) = "-" THEN 0 - DigitsValue(body, 0)
                      ELSE DigitsValue(body, 0)]
        ELSE [ok |-> FALSE, val |-> 0]

RECURSIVE ToStr(_)
\* str(n) for n >= 0
ToStr(n) == IF n < 10 THEN <<Digits[n + 1]>> ELSE ToStr(n \div 10) \o <<Digits[(n % 10) + 1]>>

LowerChar(c) == IF c = "A" THEN "a" ELSE IF c = "L" THEN "l" ELSE IF c = "X" THEN "x" ELSE c

\* str.lower()
Lower(s) == [k \in 1..Len(s) |-> LowerChar(s[k])]

RECURSIVE SplitFrom(_, _)
\* str.split(','): cur is the piece being collected
SplitFrom(s, cur) ==
    IF s = <<>> THEN <<cur>>
    ELSE IF Head(s) = "," THEN <<cur>> \o SplitFrom(Tail(s), <<>>)
    ELSE SplitFrom(Tail(s), Append(cur, Head(s)))

Split(s) == SplitFrom(s, <<>>)

\* what the user may type at the "Select an SD card" prompt
SdInputs ==
    { <<>>, <<"x">>, <<"0">>, <<"1">>, <<"2">>, <<"3">>, <<"4">>, <<"-", "1">>,
      <<" ", "2">>, <<"0", "1">>, <<"1", "0">>, <<"1", ",", "2">> }

\* what the user may type at the file-selection prompt
FileInputs ==
    { <<>>, <<"x">>, <<"0">>, <<"1">>, <<"2">>, <<"3">>, <<"4">>, <<"9">>, <<" ", "3">>,
      <<"a", "l", "l">>, <<"A", "L", "L">>, <<" ", "a", "l", "l">>,
      <<"1", ",", "2">>, <<"2", ",", "1">>, <<"1", ",", " ", "2">>,
      <<"1", ",", "9">>, <<"0", ",", "2">>, <<"9", ",", "0">>, <<"1", ",", "x">>,
      <<"1", ",">>, <<"3", ",", "1">>, <<"-", "1", ",", "1">> }

\* what the user may type at the "Enter your choice" prompt
NavInputs ==
    { <<"x">>, <<"0">>, <<"1">>, <<"2">>, <<"3">>, <<"4">>, <<"5">>, <<" ", "2">> }

\* --------------------------- environment -------------------------------
MountName(k) == <<"s", "d">> \o ToStr(k)

\* results of GET /mounts/ ; a request error yields the empty list
MountLists == { [k \in 1..n |-> [name |-> MountName(k)]] : n \in 0..MaxMounts }

FileName(k) == <<"f">> \o ToStr(k)

\* an entry is a file with its reported size, or a directory
Kinds == { [type |-> "file", size |-> 2], [type |-> "dir", size |-> 0] }

\* results of GET /mounts/<volume>/ ; a request error yields the empty list
FileLists ==
    UNION { { [k \in 1..n |-> [name |-> FileName(k), type |-> f[k].type, size |-> f[k].size]]
              : f \in [1..n -> Kinds] } : n \in 0..MaxFiles }

\* bytes found on disk after a download
ActualSizes == {1, 2}

Root == <<"r", "o", "o", "t">>

NewFolderId(k) == <<"N">> \o ToStr(k)

FolderIds == {None, Root, <<"A">>, <<"B">>, <<"C">>} \cup { NewFolderId(k) : k \in 1..MaxCreate }

\* the Drive folder tree before the run
InitialChildren ==
    [f \in FolderIds |->
        IF f = Root THEN << <<"A">>, <<"B">> >>
        ELSE IF f = <<"A">> THEN << <<"C">> >>
        ELSE <<>>]

\* ------------------------------ state ----------------------------------
VARIABLES
    pc,                 \* position in automate_process
    PARENT_FOLDER_ID,   \* DRIVE_FOLDER_ID of the environment, None when unset
    mounts,             \* select_sd_card: mounts
    sd_card,            \* automate_process: sd_card
    files,              \* automate_process: files
    selected_files,     \* automate_process: selected_files
    children,           \* Drive: folder id -> ids of its subfolders
    created,            \* folders created so far
    current_folder_id,  \* navigate_and_select_folder: current_folder_id
    subfolders,         \* navigate_and_select_folder: latest listing
    target_folder_id,   \* automate_process: target_folder_id
    idx,                \* position of the for loop in selected_files
    local_file,         \* automate_process: local_file
    actual_size,        \* download_file_from_sd_card: actual_size, 0 outside a finished download
    first_prompt,       \* navigate_and_select_folder: no iteration has completed yet
    choice,             \* text read by the latest input() of the running prompt
    out,                \* messages printed by the latest step
    trace               \* download/upload calls and their results, in order

vars == <<pc, PARENT_FOLDER_ID, mounts, sd_card, files, selected_files, children,
          created, current_folder_id, subfolders, target_folder_id, idx,
          local_file, actual_size, first_prompt, choice, out, trace>>

Init ==
    /\ pc = "start"
    /\ PARENT_FOLDER_ID \in {Root, None}
    /\ mounts = <<>>
    /\ sd_card = None
    /\ files = <<>>
    /\ selected_files = <<>>
    /\ children = InitialChildren
    /\ created = 0
    /\ current_folder_id = None
    /\ subfolders = <<>>
    /\ target_folder_id = None
    /\ idx = 0
    /\ local_file = None
    /\ actual_size = 0
    /\ first_prompt = TRUE
    /\ choice = <<>>
    /\ out = <<>>
    /\ trace = <<>>

\* --------------------------- select_sd_card ----------------------------
\* get_mounted_media and the "if not mounts" guard
GetMountedMedia ==
    /\ pc = "start"
    /\ \E m \in MountLists :
          /\ mounts' = m
          /\ IF m = <<>>
             THEN /\ out' = <<"No mounted media found.">>
                  /\ pc' = "done"
             ELSE /\ out' = <<>>
                  /\ pc' = "select_sd"
    /\ UNCHANGED <<PARENT_FOLDER_ID, sd_card, files, selected_files, children, created,
                   current_folder_id, subfolders, target_folder_id, idx, local_file,
                   actual_size, first_prompt, choice, trace>>

\* if 1 <= choice <= len(mounts)
SdChoiceValid(p, m) == p.ok /\ 1 <= p.val /\ p.val <= Len(m)

\* variant: the first volume whatever the choice
SdPick_First(m, n) == m[1].name

\* mounts[choice - 1]['name']
SdPick(m, n) == m[n].name

\* one iteration of the prompt loop of select_sd_card
SelectSdCard ==
    /\ pc = "select_sd"
    /\ \E inp \in SdInputs :
          LET p == ParseInt(inp) IN
          /\ choice' = inp
          /\ IF SdChoiceValid(p, mounts)
             THEN /\ sd_card' = SdPick(mounts, p.val)
                  /\ mounts' = <<>>    \* the local list ends with the call
                  /\ out' = <<"Selected SD card">>
                  /\ pc' = IF sd_card' = None THEN "done" ELSE "list_files"
             ELSE /\ sd_card' = sd_card
                  /\ mounts' = mounts
                  /\ out' = IF p.ok THEN <<"Invalid choice. Please select a valid SD card.">>
                            ELSE <<"Invalid input. Please enter a number.">>
                  /\ pc' = "select_sd"
    /\ UNCHANGED <<PARENT_FOLDER_ID, files, selected_files, children, created,
                   current_folder_id, subfolders, target_folder_id, idx, local_file,
                   actual_size, first_prompt, trace>>

\* list_files_on_sd_card and the "if not files" guard
ListFiles ==
    /\ pc = "list_files"
    /\ \E f \in FileLists :
          /\ files' = f
          /\ IF f = <<>>
             THEN /\ out' = <<"No files found on the SD card.">>
                  /\ pc' = "done"
             ELSE /\ out' = <<>>
                  /\ pc' = "select_files"
    /\ UNCHANGED <<PARENT_FOLDER_ID, mounts, sd_card, selected_files, children, created,
                   current_folder_id, subfolders, target_folder_id, idx, local_file,
                   actual_size, first_prompt, choice, trace>>

\* ----------------------- select_files_to_download ----------------------
\* choice.lower() == 'all' or choice == str(option_download_all)
IsDownloadAll(inp, fs) == Lower(inp) = <<"a", "l", "l">> \/ inp = ToStr(Len(fs) + 1)

\* [int(i.strip()) for i in choice.split(',')]
ParseIndices(inp) == LET toks == Split(inp) IN [k \in 1..Len(toks) |-> ParseInt(Strip(toks[k]))]

\* the filter of the list comprehension: if 1 <= i <= len(files)
IndexInRange(i, fs) == 1 <= i /\ i <= Len(fs)

RECURSIVE PickFiles(_, _)
\* [files[i - 1] for i in indices if 1 <= i <= len(files)]
PickFiles(fs, indices) ==
    IF indices = <<>> THEN <<>>
    ELSE LET i == Head(indices).val IN
         (IF IndexInRange(i, fs) THEN <<fs[i]>> ELSE <<>>) \o PickFiles(fs, Tail(indices))

\* variant: the "if selected_files" test is missing, an empty pick is accepted
SelectFilesOnce_NoEmptyCheck(fs, inp) ==
    IF IsDownloadAll(inp, fs)
    THEN [accepted |-> TRUE, sel |-> fs, msg |-> <<>>]
    ELSE LET indices == ParseIndices(inp) IN
         IF \E k \in 1..Len(indices) : ~indices[k].ok
         THEN [accepted |-> FALSE, sel |-> <<>>,
               msg |-> <<"Invalid input. Please enter valid file numbers separated by commas or 'all'.">>]
         ELSE [accepted |-> TRUE, sel |-> PickFiles(fs, indices), msg |-> <<>>]

\* one iteration of the prompt loop: accepted (break) or a message and re-prompt
SelectFilesOnce(fs, inp) ==
    IF IsDownloadAll(inp, fs)
    THEN [accepted |-> TRUE, sel |-> fs, msg |-> <<>>]
    ELSE LET indices == ParseIndices(inp) IN
         IF \E k \in 1..Len(indices) : ~indices[k].ok
         THEN [accepted |-> FALSE, sel |-> <<>>,
               msg |-> <<"Invalid input. Please enter valid file numbers separated by commas or 'all'.">>]
         ELSE LET sel == PickFiles(fs, indices) IN
              IF sel # <<>>
              THEN [accepted |-> TRUE, sel |-> sel, msg |-> <<>>]
              ELSE [accepted |-> FALSE, sel |-> <<>>,
                    msg |-> <<"No valid file numbers entered. Please try again.">>]

\* select_files_to_download's loop body; on return the "if not selected_files"
\* guard of automate_process, then the entry of navigate_and_select_folder
SelectFiles ==
    /\ pc = "select_files"
    /\ \E inp \in FileInputs :
          LET r == SelectFilesOnce(files, inp) IN
          /\ choice' = inp
          /\ out' = r.msg
          /\ IF r.accepted
             THEN /\ selected_files' = r.sel
                  /\ IF r.sel = <<>>
                     THEN /\ pc' = "done"
                          /\ current_folder_id' = current_folder_id
                     ELSE /\ pc' = "navigate"
                          /\ current_folder_id' = PARENT_FOLDER_ID
             ELSE /\ selected_files' = <<>>
                  /\ pc' = "select_files"
                  /\ current_folder_id' = current_folder_id
    /\ UNCHANGED <<PARENT_FOLDER_ID, mounts, sd_card, files, children, created,
                   subfolders, target_folder_id, idx, local_file, actual_size,
                   first_prompt, trace>>

\* --------------------- navigate_and_select_folder ----------------------
\* list_subfolders: the children, or [] when the request raises
ListSubfolders(folder, listOk) == IF listOk THEN children[folder] ELSE <<>>

\* variant: "Upload here" tested with >= instead of ==
NavBranch_UploadFromGe(c, n) ==
    IF 1 <= c /\ c <= n THEN "descend"
    ELSE IF c >= n + 1 THEN "upload_here"
    ELSE "invalid"

\* variant: "Create new folder" tested with >= instead of ==
NavBranch_CreateFromGe(c, n) ==
    IF 1 <= c /\ c <= n THEN "descend"
    ELSE IF c = n + 1 THEN "upload_here"
    ELSE IF c >= n + 2 THEN "create_new"
    ELSE "invalid"

\* the if / elif chain on choice (n = len(subfolders))
NavBranch(c, n) ==
    IF 1 <= c /\ c <= n THEN "descend"
    ELSE IF c = n + 1 THEN "upload_here"
    ELSE IF c = n + 2 THEN "create_new"
    ELSE "invalid"

\* create_drive_folder: the new folder's id, or None when the request raises
CreateDriveFolder(createOk) == IF createOk THEN NewFolderId(created + 1) ELSE None

\* variant: the result of create_drive_folder is taken without the test
AfterCreate_NoCheck(cur, new_folder_id) == new_folder_id

\* if new_folder_id: current_folder_id = new_folder_id
AfterCreate(cur, new_folder_id) == IF new_folder_id # None THEN new_folder_id ELSE cur

\* the "if not target_folder_id" guard and the entry of the for loop
AfterNavigate(target) == IF target = None THEN "done" ELSE "transfer"

\* one iteration of "while True"
Navigate ==
    /\ pc = "navigate"
    /\ \E listOk \in BOOLEAN, inp \in NavInputs, createOk \in BOOLEAN :
          LET subs == ListSubfolders(current_folder_id, listOk)
              p == ParseInt(inp)
              branch == IF p.ok THEN NavBranch(p.val, Len(subs)) ELSE "not_a_number"
              new_folder_id == CreateDriveFolder(createOk)
          IN
          /\ branch = "create_new" => created < MaxCreate
          /\ branch # "create_new" => createOk
          /\ subfolders' = subs
          /\ choice' = inp
          /\ current_folder_id' =
                CASE branch = "descend" -> subs[p.val]
                  [] branch = "create_new" -> AfterCreate(current_folder_id, new_folder_id)
                  [] OTHER -> current_folder_id
          /\ IF branch = "create_new" /\ new_folder_id # None
             THEN /\ children' = [children EXCEPT ![current_folder_id] = Append(@, new_folder_id)]
                  /\ created' = created + 1
             ELSE UNCHANGED <<children, created>>
          /\ IF branch = "upload_here"
             THEN /\ target_folder_id' = current_folder_id
                  /\ pc' = AfterNavigate(current_folder_id)
                  /\ idx' = 1
             ELSE UNCHANGED <<target_folder_id, pc, idx>>
          /\ out' =
                CASE branch = "not_a_number" -> <<"Invalid input. Please enter a number.">>
                  [] branch = "invalid" -> <<"Invalid choice. Please try again.">>
                  [] branch = "descend" -> <<"Navigated into folder">>
                  [] branch = "create_new" /\ new_folder_id # None ->
                        <<"Created folder", "Navigated into new folder">>
                  [] branch = "create_new" /\ new_folder_id = None ->
                        <<"Error creating folder", "Failed to create new folder.">>
                  [] branch = "upload_here" /\ current_folder_id = None ->
                        <<"No folder selected. Exiting.">>
                  [] OTHER -> <<>>
          /\ first_prompt' = (first_prompt /\ branch = "upload_here")
    /\ UNCHANGED <<PARENT_FOLDER_ID, mounts, sd_card, files, selected_files, local_file,
                   actual_size, trace>>

\* --------------------- the for loop of automate_process ----------------
DOWNLOAD_DIR == <<"d", "l">>

\* os.path.join(DOWNLOAD_DIR, file_name)
LocalPath(file_name) == <<DOWNLOAD_DIR, file_name>>

Event(op, i, path, parents) == [op |-> op, idx |-> i, path |-> path, parents |-> parents]

\* variant: the type test is missing
ShouldDownload_Any(file_info) == TRUE

\* if file_info['type'] == 'file'
ShouldDownload(file_info) == file_info.type = "file"

\* variant: only a file larger than reported is noticed
SizeMismatch_OnlyLarger(total_size, written) == total_size # 0 /\ written > total_size

\* if total_size != 0 and actual_size != total_size
SizeMismatch(total_size, written) == total_size # 0 /\ written # total_size

\* download_file_from_sd_card's return value: the local path, or None when a
\* requests exception was caught
DownloadResult(file_info, net) == IF net = "ok" THEN LocalPath(file_info.name) ELSE None

\* what download_file_from_sd_card prints; an exception that is not a
\* requests exception (open or write failing) leaves the function unhandled
DownloadEvents(i, file_info, net, written) ==
    LET path == LocalPath(file_info.name) IN
    <<Event("download", i, path, <<>>)>> \o
    (CASE net = "ok" ->
            (IF SizeMismatch(file_info.size, written)
             THEN <<Event("warning", i, path, <<>>)>> ELSE <<>>) \o
            <<Event("downloaded", i, path, <<>>)>>
       [] net = "neterr" -> <<Event("download_error", i, path, <<>>)>>
       [] OTHER -> <<>>)

\* variant: the upload is not conditioned on the download's result
ShouldUpload_Always(path) == TRUE

\* if local_file
ShouldUpload(path) == path # None

\* variant: the upload always goes to the configured parent folder
UploadParents_Initial(folder_id) == <<PARENT_FOLDER_ID>>

\* 'parents': [folder_id]
UploadParents(folder_id) == <<folder_id>>

\* the next iteration of "for file_info in selected_files", or the end
AfterFile(i) == IF i >= Len(selected_files) THEN "done" ELSE "transfer"

\* the loop body up to the return of download_file_from_sd_card
TransferDownload ==
    /\ pc = "transfer"
    /\ LET file_info == selected_files[idx] IN
       IF ~ShouldDownload(file_info)
       THEN /\ pc' = AfterFile(idx)
            /\ idx' = idx + 1
            /\ out' = <<>>
            /\ actual_size' = 0
            /\ UNCHANGED <<local_file, trace>>
       ELSE \E net \in {"ok", "neterr", "ioerr"}, written \in ActualSizes :
              /\ actual_size' = IF net = "ok" THEN written ELSE 0
              /\ net # "ok" => written = 1
              /\ trace' = trace \o DownloadEvents(idx, file_info, net, written)
              /\ out' = IF net = "ok" /\ SizeMismatch(file_info.size, written)
                        THEN <<"WARNING: Expected size">> ELSE <<>>
              /\ IF net = "ioerr"
                 THEN /\ pc' = "crashed"
                      /\ UNCHANGED <<idx, local_file>>
                 ELSE /\ local_file' = DownloadResult(file_info, net)
                      /\ IF ShouldUpload(local_file')
                         THEN /\ pc' = "upload"
                              /\ idx' = idx
                         ELSE /\ pc' = AfterFile(idx)
                              /\ idx' = idx + 1
    /\ choice' = <<>>        \* the locals of navigate_and_select_folder
    /\ subfolders' = <<>>    \* ended with the call
    /\ UNCHANGED <<PARENT_FOLDER_ID, mounts, sd_card, files, selected_files, children,
                   created, current_folder_id, target_folder_id, first_prompt>>

\* upload_file_to_drive: MediaFileUpload is built outside the try, so its
\* failure leaves the function unhandled; a failing request is caught
TransferUpload ==
    /\ pc = "upload"
    /\ \E res \in {"ok", "fail", "media_error"} :
          LET call == Event("upload", idx, local_file, UploadParents(target_folder_id)) IN
          /\ out' = <<>>
          /\ CASE res = "ok" ->
                    /\ trace' = trace \o <<call, Event("uploaded", idx, local_file, call.parents)>>
                    /\ pc' = AfterFile(idx)
                    /\ idx' = idx + 1
               [] res = "fail" ->
                    /\ trace' = trace \o <<call, Event("upload_error", idx, local_file, call.parents)>>
                    /\ pc' = AfterFile(idx)
                    /\ idx' = idx + 1
               [] OTHER ->
                    /\ trace' = trace \o <<call>>
                    /\ pc' = "crashed"
                    /\ idx' = idx
    /\ actual_size' = 0      \* the local of download_file_from_sd_card ended with the call
    /\ UNCHANGED <<PARENT_FOLDER_ID, mounts, sd_card, files, selected_files, children,
                   created, current_folder_id, subfolders, target_folder_id, local_file,
                   first_prompt, choice>>

Next == GetMountedMedia \/ SelectSdCard \/ ListFiles \/ SelectFiles \/ Navigate
        \/ TransferDownload \/ TransferUpload

Spec == Init /\ [][Next]_vars
\* ------------------------------ properties -----------------------------
Ops(k) == trace[k].op

HasEvent(op, i) == \E k \in 1..Len(trace) : Ops(k) = op /\ trace[k].idx = i

RunEnded == pc \in {"done", "crashed"}

\* C1: an upload is called for a file only right after the download of that
\* same file has returned its local path (the size comparison lies before
\* that return); a file whose download returned the failure signal never
\* gets an upload call.
C1_UploadOnlyAfterDownload ==
    /\ \A k \in 1..Len(trace) :
          Ops(k) = "upload" =>
             /\ k > 1
             /\ Ops(k - 1) = "downloaded"
             /\ trace[k - 1].idx = trace[k].idx
             /\ trace[k].path = trace[k - 1].path
             /\ trace[k].path # None
    /\ \A i \in 1..Len(selected_files) : HasEvent("download_error", i) => ~HasEvent("upload", i)
    /\ pc = "upload" =>
          /\ trace # <<>>
          /\ Ops(Len(trace)) = "downloaded"
          /\ trace[Len(trace)].idx = idx

C1_Witness ==
    /\ pc = "done"
    /\ \E i, j \in 1..Len(selected_files) :
          HasEvent("download_error", i) /\ HasEvent("upload", j)

\* C2: no selected entry whose type is not "file" is ever downloaded or
\* uploaded; every call in the trace is for an entry of type "file".
C2_OnlyFilesDownloaded ==
    \A k \in 1..Len(trace) :
       /\ trace[k].idx \in 1..Len(selected_files)
       /\ selected_files[trace[k].idx].type = "file"

C2_Witness ==
    /\ pc = "done"
    /\ trace # <<>>
    /\ \E i \in 1..Len(selected_files) : selected_files[i].type # "file"

\* C3: a failing download or upload of one file ends only that file's
\* transfer: once the run has ended, every selected entry of type "file" has
\* had its download attempted.
C3_FailureSkipsOnlyThatFile ==
    (RunEnded /\ target_folder_id # None) =>
       \A i \in 1..Len(selected_files) :
          selected_files[i].type = "file" => HasEvent("download", i)

\* C4: navigation returns exactly on the choice len(subfolders) + 1 of the
\* listing just shown, and then returns the current folder id as it was,
\* leaving it unchanged.
C4_ReturnOnlyViaUploadHere ==
    [][ pc = "navigate" =>
          LET p == ParseInt(choice')
              here == p.ok /\ p.val = Len(subfolders') + 1
          IN  /\ (pc' # "navigate") <=> here
              /\ here => /\ target_folder_id' = current_folder_id
                         /\ current_folder_id' = current_folder_id
              /\ ~here => target_folder_id' = target_folder_id ]_vars

C4_Witness ==
    /\ pc = "transfer"
    /\ subfolders # <<>>
    /\ ParseInt(choice).val = Len(subfolders) + 1
    /\ target_folder_id = current_folder_id
    /\ target_folder_id # PARENT_FOLDER_ID

\* C5: the choice len(subfolders) + 2 never ends navigation; a successful
\* creation moves current_folder_id to the new folder, created under the
\* folder that was current, and a failed one leaves everything as it was.
C5_CreateKeepsNavigating ==
    [][ (pc = "navigate" /\ ParseInt(choice').ok
            /\ ParseInt(choice').val = Len(subfolders') + 2) =>
          /\ pc' = "navigate"
          /\ target_folder_id' = target_folder_id
          /\ \/ /\ created' = created + 1
                /\ current_folder_id' = NewFolderId(created + 1)
                /\ children' = [children EXCEPT ![current_folder_id] =
                                    Append(@, NewFolderId(created + 1))]
             \/ /\ created' = created
                /\ current_folder_id' = current_folder_id
                /\ children' = children
                /\ out' = <<"Error creating folder", "Failed to create new folder.">> ]_vars

C5_Witness ==
    /\ pc = "navigate"
    /\ created = 1
    /\ current_folder_id = NewFolderId(1)
    /\ ParseInt(choice).ok
    /\ ParseInt(choice).val = Len(subfolders) + 2

RECURSIVE ExpectedCalls(_, _, _)
\* download then upload of every file-type entry of fs from position i on
ExpectedCalls(fs, i, folder) ==
    IF i > Len(fs) THEN <<>>
    ELSE (IF fs[i].type = "file"
          THEN <<Event("download", i, <<DOWNLOAD_DIR, fs[i].name>>, <<>>),
                 Event("upload", i, <<DOWNLOAD_DIR, fs[i].name>>, <<folder>>)>>
          ELSE <<>>) \o ExpectedCalls(fs, i + 1, folder)

IsCall(e) == e.op \in {"download", "upload"}

IsError(e) == e.op \in {"download_error", "upload_error"}

AllSucceeded == pc = "done" /\ \A k \in 1..Len(trace) : ~IsError(trace[k])

\* C6: when everything was selected, a destination was returned and no
\* download or upload failed, the calls made are exactly one download then
\* one upload per file-type entry, in list order, each upload with
\* parents = [the returned folder id]; that id is the configured parent
\* folder id when "Upload here" was the very first choice.
C6_AllSelectedAllUploaded ==
    (AllSucceeded /\ selected_files = files /\ target_folder_id # None) =>
       /\ SelectSeq(trace, IsCall) = ExpectedCalls(files, 1, target_folder_id)
       /\ first_prompt => target_folder_id = PARENT_FOLDER_ID

C6_Witness ==
    /\ AllSucceeded
    /\ selected_files = files
    /\ Len(files) = 2
    /\ \A i \in 1..Len(files) : HasEvent("uploaded", i)
    /\ first_prompt

\* C7: a download that finishes with a reported size that is nonzero and
\* differs from the size on disk logs a warning just before it reports the
\* download, returns the local path, and the caller goes on to the upload.
C7_SizeMismatchOnlyWarns ==
    [][ (pc = "transfer" /\ Len(trace') > Len(trace)
            /\ trace'[Len(trace')].op = "downloaded"
            /\ selected_files[idx].size # 0
            /\ actual_size' # selected_files[idx].size) =>
          /\ Len(trace') = Len(trace) + 3
          /\ trace'[Len(trace') - 1].op = "warning"
          /\ trace'[Len(trace') - 1].idx = idx
          /\ local_file' = <<DOWNLOAD_DIR, selected_files[idx].name>>
          /\ pc' = "upload" ]_vars

C7_Witness ==
    /\ pc = "done"
    /\ \E k \in 1..Len(trace) :
          /\ Ops(k) = "warning"
          /\ HasEvent("uploaded", trace[k].idx)

\* C8: the SD card prompt returns exactly on an integer within
\* 1..len(mounts), with the name of the volume at that position; on any
\* other input it reports and prompts again.
C8_SdCardChoiceRange ==
    [][ pc = "select_sd" =>
          LET p == ParseInt(choice') IN
          IF p.ok /\ p.val \in 1..Len(mounts)
          THEN /\ pc' # "select_sd"
               /\ sd_card' = mounts[p.val].name
          ELSE /\ pc' = "select_sd"
               /\ sd_card' = sd_card
               /\ mounts' = mounts
               /\ out' # <<>> ]_vars

C8_Witness ==
    /\ pc = "list_files"
    /\ sd_card = MountName(2)

\* C9: in navigation, an input that is not a number, or a number outside
\* 1..len(subfolders)+2, is reported and changes nothing: the cursor stays,
\* no folder is created and the loop goes on.
C9_InvalidNavInputNoEffect ==
    [][ (pc = "navigate" /\ LET p == ParseInt(choice') IN
                            ~p.ok \/ p.val < 1 \/ p.val > Len(subfolders') + 2) =>
          /\ pc' = "navigate"
          /\ current_folder_id' = current_folder_id
          /\ target_folder_id' = target_folder_id
          /\ children' = children
          /\ created' = created
          /\ out' = IF ParseInt(choice').ok
                    THEN <<"Invalid choice. Please try again.">>
                    ELSE <<"Invalid input. Please enter a number.">> ]_vars

C9_Witness ==
    /\ pc = "navigate"
    /\ out = <<"Invalid choice. Please try again.">>
    /\ ParseInt(choice).val > Len(subfolders) + 2
    /\ current_folder_id # PARENT_FOLDER_ID

\* the tokens of a file-selection input, as numbers
TokenVals(inp) == LET pi == ParseIndices(inp) IN [k \in 1..Len(pi) |-> pi[k].val]

AllNumeric(inp) == \A k \in 1..Len(ParseIndices(inp)) : ParseIndices(inp)[k].ok

InRange(v) == v \in 1..Len(files)

\* an input other than "all" / the download-all index with a non-numeric
\* token or an index outside 1..len(files)
IsInputError(inp) ==
    /\ ~IsDownloadAll(inp, files)
    /\ \/ ~AllNumeric(inp)
       \/ \E k \in 1..Len(TokenVals(inp)) : ~InRange(TokenVals(inp)[k])

\* C10 as stated: every input error is reported, re-prompted and never
\* accepted as a selection.
C10_EveryInputErrorRejected ==
    [][ (pc = "select_files" /\ IsInputError(choice')) =>
          /\ pc' = "select_files"
          /\ out' # <<>>
          /\ selected_files' = <<>> ]_vars

\* C10 amended: an input with a non-numeric token, or with no index inside
\* 1..len(files), is reported and re-prompted; an all-numeric input with at
\* least one index in range is accepted as the selection of its in-range
\* indices, in the order typed; no input ends the run.
C10_InputErrorRejectedUnlessSomeValid ==
    [][ (pc = "select_files" /\ ~IsDownloadAll(choice', files)) =>
          LET kept == SelectSeq(TokenVals(choice'), InRange) IN
          IF ~AllNumeric(choice') \/ kept = <<>>
          THEN /\ pc' = "select_files"
               /\ out' # <<>>
               /\ selected_files' = <<>>
          ELSE /\ pc' = "navigate"
               /\ out' = <<>>
               /\ selected_files' = [k \in 1..Len(kept) |-> files[kept[k]]] ]_vars

C10_Witness ==
    /\ pc = "navigate"
    /\ first_prompt
    /\ IsInputError(choice)
    /\ Len(selected_files) = 1
    /\ Len(TokenVals(choice)) = 2
====
